---------------------------- MODULE Spec2Model ----------------------------
(***************************************************************************)
(* Model of the SOLID walkthrough of whatsdeveloper/design-principles:     *)
(* the shape factories, the area/volume calculators and the outputter of   *)
(* src/principles/solid.js (lines 1-121), executed as a classic script     *)
(* (sloppy mode: the file has no "use strict" and no module syntax).       *)
(*                                                                         *)
(* JavaScript values are records tagged by t: "undefined", "undeclared",   *)
(* "null", "string", "number", "function", "array", "object".  An object   *)
(* is its own properties plus the properties of its prototype (the         *)
(* prototypes of the program are one level deep).  A function value is     *)
(* its source text and the variables it closes over.                       *)
(*                                                                         *)
(* Numbers are binary fixed-point values: a finite number is an integer    *)
(* count of units of 1/Scale, and Math.PI is cut to that grid.  Infinity   *)
(* and NaN are kept, since JSON.stringify and string conversion treat      *)
(* them differently from finite numbers.                                   *)
(*                                                                         *)
(* The other examples of the repository are modelled next to it, each with *)
(* its own specification: the users and tokens of TDA.md (SpecTokens), the *)
(* account service of solid.js 123-305 (SpecTransfer), the Week of DRY.md  *)
(* (SpecWeek) and the payment of KISS.md (SpecPay).  Where a document      *)
(* shows a class before and after a principle is applied, both are here.   *)
(***************************************************************************)
EXTENDS Integers, Sequences, FiniteSets, TLC

VARIABLES
    output,     \* the outputter under observation, with its calculator,
                \* the calculator's shapes array and the shapes in it
    shape,      \* the global variable `shape` of the script
    call,       \* the last operation performed and how it completed
    probe,      \* a single shape whose methods are called directly
    u,          \* the user `u` of TDA.md, in each version of the example
    accounts,   \* the account service of the separation-of-concerns
                \* example (which version it is) and its users u1 and u2
    week,       \* the Week of DRY.md
    purchase    \* the region, amount and net price paid for in KISS.md

vars == <<output, shape, call, probe, u, accounts, week, purchase>>

\* the state of the SOLID walkthrough and the state of the other examples
solid == <<output, shape, probe>>
examples == <<u, accounts, week, purchase>>

-----------------------------------------------------------------------------
(* Bounds of the model *)

MaxLen == 3     \* longest shapes array the caller builds; also the number
                \* of days added to a constructed Week
MaxDim == 4     \* largest |dimension| of a shape built for direct calls
FracBits == 3   \* binary digits a number keeps after the point
MaxTokens == 4  \* largest |tokens| and |amount| of an updateTokens call
MaxBalance == 2 \* largest |balance| and |amount| of a transfer

-----------------------------------------------------------------------------
(* Numbers *)

Scale == 2 ^ FracBits               \* units per 1
MathPI == (355 * Scale) \div 113    \* Math.PI (355/113) cut to the grid

Fin(n) == [t |-> "number", k |-> "fin", v |-> n]
Infinity == [t |-> "number", k |-> "inf", v |-> 1]
NaN == [t |-> "number", k |-> "nan", v |-> 0]
Num(d) == Fin(d * Scale)                \* the whole number d
Zero == Fin(0)
Sign(n) == IF n < 0 THEN -1 ELSE IF n > 0 THEN 1 ELSE 0

\* a + b on numbers
Add(a, b) ==
    IF a.k = "nan" \/ b.k = "nan" THEN NaN
    ELSE IF a.k = "inf" /\ b.k = "inf"
         THEN IF a.v = b.v THEN a ELSE NaN
    ELSE IF a.k = "inf" THEN a
    ELSE IF b.k = "inf" THEN b
    ELSE Fin(a.v + b.v)

\* a * b on numbers
Mul(a, b) ==
    IF a.k = "nan" \/ b.k = "nan" THEN NaN
    ELSE IF a.k = "inf" \/ b.k = "inf"
         THEN IF Sign(a.v) * Sign(b.v) = 0 THEN NaN
              ELSE [t |-> "number", k |-> "inf", v |-> Sign(a.v) * Sign(b.v)]
    ELSE Fin((a.v * b.v) \div Scale)

\* a product where a power is meant: a * n
MathPowAsProduct(a, n) ==
    IF a.k = "fin" THEN Fin(a.v * n) ELSE a

\* Math.pow(a, n) for the exponents the program uses (2 and 3)
MathPow(a, n) ==
    IF n = 2 THEN Mul(a, a) ELSE Mul(Mul(a, a), a)

NegInfinity == [t |-> "number", k |-> "inf", v |-> -1]
Neg(a) == Mul(a, Num(-1))               \* a * -1
Sub(a, b) == Add(a, Neg(b))             \* a - b

\* a <= b on numbers: false when either is NaN
Leq(a, b) ==
    LET Ord(x) == IF x.k = "inf" THEN x.v ELSE 0
    IN  /\ a.k # "nan" /\ b.k # "nan"
        /\ \/ Ord(a) < Ord(b)
           \/ Ord(a) = Ord(b) /\ (a.k = "inf" \/ a.v <= b.v)
Geq(a, b) == Leq(b, a)                  \* a >= b
Lt(a, b) == Leq(a, b) /\ a # b          \* a < b
Gt(a, b) == Lt(b, a)                    \* a > b

-----------------------------------------------------------------------------
(* Values and objects *)

Undefined == [t |-> "undefined"]
Undeclared == [t |-> "undeclared"]      \* a global that does not exist yet
\* a string is a sequence of pieces: a literal is one piece, a rendered
\* number one piece per character
Str(s) == [t |-> "string", s |-> <<s>>]
Text(cs) == [t |-> "string", s |-> cs]
Null == [t |-> "null"]
Fn(code, env) == [t |-> "function", code |-> code, env |-> env]
Empty == [p \in {} |-> Undefined]       \* no properties
Obj(proto, own) == [t |-> "object", own |-> own, proto |-> proto]
Arr(items) == [t |-> "array", items |-> items]

\* Object.assign({}, a, b): the properties of a, then those of b over them
Assign(a, b) ==
    [p \in DOMAIN a \cup DOMAIN b |-> IF p \in DOMAIN b THEN b[p] ELSE a[p]]

\* o.p: own property, else the prototype's, else undefined
Get(o, p) ==
    IF o.t # "object" THEN Undefined
    ELSE IF p \in DOMAIN o.own THEN o.own[p]
    ELSE IF p \in DOMAIN o.proto THEN o.proto[p]
    ELSE Undefined

\* Object.create(p): a new object whose prototype is p
ObjectCreate(p) == Obj(p.own, Empty)

\* Object.getPrototypeOf(o), for an object built by ObjectCreate
ObjectGetPrototypeOf(o) == Obj(Empty, o.proto)

\* Object.assign(target, source): source's own properties copied to target
ObjectAssign(target, source) ==
    Obj(target.proto, Assign(target.own, source.own))

\* an object literal { ... }
Literal(props) == Obj(Empty, props)

\* the completion of a side-effect free call: a value, or a thrown error
Ok(v) == [c |-> "normal", v |-> v]
Err(e) == [c |-> "throw", v |-> Str(e)]

\* the completion of a method call that may write: the value or error, the
\* receiver as the call leaves it, and the global `shape` as it leaves it
Return(v, this, g) == [c |-> "normal", v |-> v, this |-> this, shape |-> g]
Throw(e, this, g) == [c |-> "throw", v |-> e, this |-> this, shape |-> g]

\* ToNumber of a property used as a dimension (undefined becomes NaN)
ToNumber(v) == IF v.t = "number" THEN v ELSE NaN


-----------------------------------------------------------------------------
(* The interfaces and the shape factories (solid.js 5-59) *)

shapeInterface(state) ==
    Literal([type |-> Str("shapeInterface"),
             area |-> Fn("() => state.area(state)", [state |-> state])])

solidShapeInterface(state) ==
    Literal([type |-> Str("solidShapeInterface"),
             volume |-> Fn("() => state.volume(state)", [state |-> state])])

manageShapeInterface(fn) ==
    Literal([type |-> Str("manageShapeInterface"),
             calculate |-> Fn("() => fn()", [fn |-> fn])])

square(length) ==
    LET proto == Literal([length |-> length, type |-> Str("Square"),
                          area |-> Fn("args => Math.pow(args.length, 2)", Empty)])
        basics == shapeInterface(proto)
        abstraccion ==
            manageShapeInterface(Fn("() => basics.area()", [basics |-> basics]))
        composite == ObjectAssign(ObjectAssign(Literal(Empty), basics), abstraccion)
    IN  ObjectAssign(ObjectCreate(composite), Literal([length |-> length]))

circle(radius) ==
    LET proto == Literal([radius |-> radius, type |-> Str("Circle"),
                          area |-> Fn("args => Math.PI * Math.pow(args.radius, 2)", Empty)])
        basics == shapeInterface(proto)
        abstraccion ==
            manageShapeInterface(Fn("() => basics.area()", [basics |-> basics]))
        composite == ObjectAssign(ObjectAssign(Literal(Empty), basics), abstraccion)
    IN  ObjectAssign(ObjectCreate(composite), Literal([radius |-> radius]))

\* a cubo whose calculate forgets the volume: () => basics.area()
cuboAreaOnly(length) ==
    LET proto == Literal([length |-> length, type |-> Str("Cubo"),
                          area |-> Fn("args => Math.pow(args.length, 2)", Empty),
                          volume |-> Fn("args => Math.pow(args.length, 3)", Empty)])
        basics == shapeInterface(proto)
        abstraccion ==
            manageShapeInterface(Fn("() => basics.area()", [basics |-> basics]))
        composite == ObjectAssign(ObjectAssign(Literal(Empty), basics), abstraccion)
    IN  ObjectAssign(ObjectCreate(composite), Literal([length |-> length]))

cubo(length) ==
    LET proto == Literal([length |-> length, type |-> Str("Cubo"),
                          area |-> Fn("args => Math.pow(args.length, 2)", Empty),
                          volume |-> Fn("args => Math.pow(args.length, 3)", Empty)])
        basics == shapeInterface(proto)
        complex == solidShapeInterface(proto)
        abstraccion ==
            manageShapeInterface(Fn("() => basics.area() + complex.volume()",
                                    [basics |-> basics, complex |-> complex]))
        composite == ObjectAssign(ObjectAssign(Literal(Empty), basics), abstraccion)
    IN  ObjectAssign(ObjectCreate(composite), Literal([length |-> length]))

\* the square of the walkthrough's open-closed section: its prototype is
\* composed of shapeInterface alone
squareBasics(length) ==
    LET proto == Literal([length |-> length, type |-> Str("Square"),
                          area |-> Fn("args => Math.pow(args.length, 2)", Empty)])
        basics == shapeInterface(proto)
        composite == ObjectAssign(Literal(Empty), basics)
    IN  ObjectAssign(ObjectCreate(composite), Literal([length |-> length]))

\* the cubo of the walkthrough's interface segregation section: its
\* prototype is composed of shapeInterface and solidShapeInterface
cuboSegregated(length) ==
    LET proto == Literal([length |-> length, type |-> Str("Cubo"),
                          area |-> Fn("args => Math.pow(args.length, 2)", Empty),
                          volume |-> Fn("args => Math.pow(args.length, 3)", Empty)])
        basics == shapeInterface(proto)
        complex == solidShapeInterface(proto)
        composite == ObjectAssign(ObjectAssign(Literal(Empty), basics), complex)
    IN  ObjectAssign(ObjectCreate(composite), Literal([length |-> length]))

-----------------------------------------------------------------------------
(* Calling the functions of a shape.  None of them assigns anything, so a   *)
(* call is its completion alone.                                            *)

RECURSIVE Invoke(_, _)
RECURSIVE CallMethod(_, _, _)

\* o.p(arg)
CallMethod(o, p, arg) ==
    IF Get(o, p).t # "function" THEN Err("TypeError")
    ELSE Invoke(Get(o, p), arg)

\* f(arg), by the body of f
Invoke(f, arg) ==
    CASE f.code = "args => Math.pow(args.length, 2)" ->
            Ok(MathPow(ToNumber(Get(arg, "length")), 2))
      [] f.code = "args => Math.pow(args.length, 3)" ->
            Ok(MathPow(ToNumber(Get(arg, "length")), 3))
      [] f.code = "args => Math.PI * Math.pow(args.radius, 2)" ->
            Ok(Mul(Fin(MathPI), MathPow(ToNumber(Get(arg, "radius")), 2)))
      [] f.code = "() => state.area(state)" ->
            CallMethod(f.env.state, "area", f.env.state)
      [] f.code = "() => state.volume(state)" ->
            CallMethod(f.env.state, "volume", f.env.state)
      [] f.code = "() => fn()" ->
            Invoke(f.env.fn, Undefined)
      [] f.code = "() => basics.area()" ->
            CallMethod(f.env.basics, "area", Undefined)
      [] f.code = "() => basics.area() + complex.volume()" ->
            LET a == CallMethod(f.env.basics, "area", Undefined)
                b == CallMethod(f.env.complex, "volume", Undefined)
            IN  IF a.c = "throw" THEN a
                ELSE IF b.c = "throw" THEN b
                ELSE Ok(Add(a.v, b.v))
      [] OTHER -> Err("TypeError")

-----------------------------------------------------------------------------
(* The calculators (solid.js 61-83) *)

\* a reducer that returns the current element and drops the accumulator:
\* area.reduce((v, c) => c, 0)
RECURSIVE ReduceKeepsLast(_, _, _)
ReduceKeepsLast(area, i, v) ==
    IF i > Len(area) THEN v
    ELSE ReduceKeepsLast(area, i + 1, area[i])

\* area.reduce((v, c) => (c += v), 0), from element i on, v accumulated
RECURSIVE Reduce(_, _, _)
Reduce(area, i, v) ==
    IF i > Len(area) THEN v
    ELSE Reduce(area, i + 1, Add(area[i], v))

\* a loop that leaves out the elements it cannot calculate:
\* for (shape of this.shapes) { if (shape && shape.calculate) area.push(...) }
RECURSIVE SumLoopSkips(_, _, _, _)
SumLoopSkips(items, i, area, g) ==
    IF i > Len(items) THEN [c |-> "normal", v |-> area, shape |-> g]
    ELSE LET r == CallMethod(items[i], "calculate", Undefined)
         IN  IF r.c = "throw"
             THEN SumLoopSkips(items, i + 1, area, items[i])
             ELSE SumLoopSkips(items, i + 1, Append(area, r.v), items[i])

\* for (shape of this.shapes) { area.push(shape.calculate()); }, from
\* element i on.  `shape` is not declared in sum, so each iteration
\* assigns the global of that name.  Yields the completion of the loop
\* (the area array, or the error thrown) and the global as it is left.
RECURSIVE SumLoop(_, _, _, _)
SumLoop(items, i, area, g) ==
    IF i > Len(items) THEN [c |-> "normal", v |-> area, shape |-> g]
    ELSE LET r == CallMethod(items[i], "calculate", Undefined)
         IN  IF r.c = "throw"
             THEN [c |-> "throw", v |-> r.v, shape |-> items[i]]
             ELSE SumLoop(items, i + 1, Append(area, r.v), items[i])

\* a memoising sum(): the first total is kept on the calculator and
\* returned by every later call
sumCached(this, g) ==
    IF Get(this, "shapes").t # "array" THEN Throw(Str("TypeError"), this, g)
    ELSE IF "cache" \in DOMAIN this.own THEN Return(this.own.cache, this, g)
    ELSE LET loop == SumLoop(Get(this, "shapes").items, 1, <<>>, g)
             total == Reduce(loop.v, 1, Zero)
         IN  IF loop.c = "throw" THEN Throw(loop.v, this, loop.shape)
             ELSE Return(total,
                         ObjectAssign(this, Literal([cache |-> total])),
                         loop.shape)

\* the body of sum(), with receiver this and the global `shape` holding g
sum(this, g) ==
    IF Get(this, "shapes").t # "array" THEN Throw(Str("TypeError"), this, g)
    ELSE LET loop == SumLoop(Get(this, "shapes").items, 1, <<>>, g)
         IN  IF loop.c = "throw" THEN Throw(loop.v, this, loop.shape)
             ELSE Return(Reduce(loop.v, 1, Zero), this, loop.shape)

\* the loop of the type-checked sum() of the walkthrough, from element i
\* on: an element whose prototype's type is 'shapeInterface' contributes
\* its area(), any other element makes the call throw
RECURSIVE SumLoopTyped(_, _, _, _)
SumLoopTyped(items, i, area, g) ==
    IF i > Len(items) THEN [c |-> "normal", v |-> area, shape |-> g]
    ELSE IF items[i].t # "object"
    THEN [c |-> "throw", v |-> Str("TypeError"), shape |-> items[i]]
    ELSE IF Get(ObjectGetPrototypeOf(items[i]), "type") = Str("shapeInterface")
    THEN LET r == CallMethod(items[i], "area", Undefined)
         IN  IF r.c = "throw"
             THEN [c |-> "throw", v |-> r.v, shape |-> items[i]]
             ELSE SumLoopTyped(items, i + 1, Append(area, r.v), items[i])
    ELSE [c |-> "throw", v |-> Str("Error: this is not a shapeInterface object"),
          shape |-> items[i]]

\* the body of the type-checked sum()
sumTyped(this, g) ==
    IF Get(this, "shapes").t # "array" THEN Throw(Str("TypeError"), this, g)
    ELSE LET loop == SumLoopTyped(Get(this, "shapes").items, 1, <<>>, g)
         IN  IF loop.c = "throw" THEN Throw(loop.v, this, loop.shape)
             ELSE Return(Reduce(loop.v, 1, Zero), this, loop.shape)

areaCalculator(s) ==
    LET proto == Literal([type |-> Str("areaCalculator"),
                          sum |-> Fn("sum() { ... }", Empty)])
    IN  ObjectAssign(ObjectCreate(proto), Literal([shapes |-> s]))

\* a volumeCalculator that does not copy areaCalculator's prototype
volumeCalculatorNoInherit(s) ==
    LET proto == Literal([type |-> Str("volumeCalculator")])
        inherit == ObjectAssign(Literal(Empty), proto)
    IN  ObjectAssign(ObjectCreate(inherit), Literal([shapes |-> s]))

volumeCalculator(s) ==
    LET proto == Literal([type |-> Str("volumeCalculator")])
        areaCalProto == ObjectGetPrototypeOf(areaCalculator(Undefined))
        inherit == ObjectAssign(ObjectAssign(Literal(Empty), areaCalProto), proto)
    IN  ObjectAssign(ObjectCreate(inherit), Literal([shapes |-> s]))

\* calculator.sum(): the method is looked up on the calculator
CallSum(calculator, g) ==
    IF Get(calculator, "sum").t # "function"
    THEN Throw(Str("TypeError"), calculator, g)
    ELSE sum(calculator, g)

-----------------------------------------------------------------------------
(* Text of a number *)

DigitChars == <<"0", "1", "2", "3", "4", "5", "6", "7", "8", "9">>

\* the decimal digits of the natural number n
RECURSIVE Digits(_)
Digits(n) ==
    IF n < 10 THEN <<DigitChars[n + 1]>>
    ELSE Digits(n \div 10) \o <<DigitChars[(n % 10) + 1]>>

\* the decimal digits of the fraction r / Scale, 0 <= r < Scale
RECURSIVE FracDigits(_)
FracDigits(r) ==
    IF r = 0 THEN <<>>
    ELSE <<DigitChars[((r * 10) \div Scale) + 1]>> \o FracDigits((r * 10) % Scale)

Abs(n) == IF n < 0 THEN -n ELSE n

\* Number::toString: the shortest decimal numeral that reads back as x
NumberToString(x) ==
    IF x.k = "nan" THEN <<"NaN">>
    ELSE IF x.k = "inf" THEN (IF x.v < 0 THEN <<"-Infinity">> ELSE <<"Infinity">>)
    ELSE (IF x.v < 0 THEN <<"-">> ELSE <<>>)
         \o Digits(Abs(x.v) \div Scale)
         \o (IF Abs(x.v) % Scale = 0 THEN <<>>
             ELSE <<".">> \o FracDigits(Abs(x.v) % Scale))

\* a serialisation that rounds the number down to a whole number first
JSONstringifyRounded(x) ==
    IF x.k = "fin" THEN Text(Digits(Abs(x.v) \div Scale)) ELSE Str("null")

\* JSON.stringify of a number: a non-finite number is serialised as null
JSONstringify(x) ==
    IF x.k = "fin" THEN Text(NumberToString(x)) ELSE Str("null")

-----------------------------------------------------------------------------
(* The outputter (solid.js 85-105) *)

sumCalculatorOputter(a) ==
    LET proto == Literal([JSON |-> Fn("JSON() { ... }", Empty),
                          HAML |-> Fn("HAML() { ... }", Empty),
                          HTML |-> Fn("HTML() { ... }", Empty),
                          JADE |-> Fn("JADE() { ... }", Empty)])
    IN  ObjectAssign(ObjectCreate(proto), Literal([calculator |-> a]))

\* the receiver with its calculator as a call of sum() left it
WithCalculator(this, a) == [this EXCEPT !.own.calculator = a]

\* JSON() { return JSON.stringify(this.calculator.sum()); }
JSON(this, g) ==
    LET r == CallSum(Get(this, "calculator"), g)
    IN  IF r.c = "throw" THEN Throw(r.v, WithCalculator(this, r.this), r.shape)
        ELSE Return(JSONstringify(r.v), WithCalculator(this, r.this), r.shape)

\* HAML() { return `HAML format output`; }
HAML(this, g) == Return(Str("HAML format output"), this, g)

\* an HTML() that empties the calculator's shapes array while reporting
HTMLDrains(this, g) ==
    LET r == CallSum(Get(this, "calculator"), g)
    IN  IF r.c = "throw" THEN Throw(r.v, WithCalculator(this, r.this), r.shape)
        ELSE Return(Text(<<"<h1> Sum of the areas of provided shapes: ">>
                         \o NumberToString(r.v) \o <<" </h1>">>),
                    WithCalculator(this, ObjectAssign(r.this,
                                       Literal([shapes |-> Arr(<<>>)]))),
                    r.shape)

\* HTML() { return `<h1> Sum of the areas of provided shapes: ${sum} </h1>`; }
HTML(this, g) ==
    LET r == CallSum(Get(this, "calculator"), g)
    IN  IF r.c = "throw" THEN Throw(r.v, WithCalculator(this, r.this), r.shape)
        ELSE Return(Text(<<"<h1> Sum of the areas of provided shapes: ">>
                         \o NumberToString(r.v) \o <<" </h1>">>),
                    WithCalculator(this, r.this), r.shape)

\* JADE() { return `JADE format output`; }
JADE(this, g) == Return(Str("JADE format output"), this, g)

-----------------------------------------------------------------------------
(* Tell-Don't-Ask (TDA.md).  A user is its tokens: updateTokens reads and   *)
(* writes nothing else of it.  An operation is the string of the enum.      *)

\* new User(): tokens start at 0
User == [tokens |-> Zero]

\* NaturalNumberValidator.operation(from, amount)
NaturalNumberValidator_operation(from, amount) ==
    IF Leq(Add(from, amount), Zero) THEN Zero ELSE Add(from, amount)

\* user.updateTokens(amount)
User_updateTokens(this, amount) ==
    [this EXCEPT !.tokens = NaturalNumberValidator_operation(this.tokens, amount)]

\* uService.updateTokens(user, operation, amount), with TDA
UserService_updateTokens(user, operation, amount) ==
    User_updateTokens(user, IF operation = "sub" THEN Neg(amount) ELSE amount)

\* uService.updateTokens(user, operation, amount), without TDA
UserService_updateTokensNoTDA(user, operation, amount) ==
    LET added == IF operation = "add"
                 THEN [user EXCEPT !.tokens = Add(user.tokens, amount)]
                 ELSE user
    IN  IF operation = "sub"
        THEN IF Geq(Sub(added.tokens, amount), Zero)
             THEN [added EXCEPT !.tokens = Sub(added.tokens, amount)]
             ELSE [added EXCEPT !.tokens = Zero]
        ELSE added

-----------------------------------------------------------------------------
(* Separation of concerns (solid.js 123-305).  A user is its balance; the   *)
(* users of a service are held by name ("u1", "u2"), so that a transfer     *)
(* from a user to the same user updates one object.  Logging changes no     *)
(* state.                                                                   *)

\* new User(name): balance starts at 0
Account == [balance |-> Zero]

\* aService.transfer(user1, user2, amount), without SoC
AccountService_transferNoSoC(users, user1, user2, amount) ==
    IF Leq(amount, Zero) THEN users
    ELSE IF Lt(Sub(users[user1].balance, amount), Zero) THEN users
    ELSE LET got == [users EXCEPT
                        ![user1].balance = Sub(users[user1].balance, amount)]
         IN  [got EXCEPT ![user2].balance = Add(got[user2].balance, amount)]

\* aService.updateBalance(user, amount), without SoC
AccountService_updateBalanceNoSoC(users, user, amount) ==
    [users EXCEPT ![user].balance = Add(users[user].balance, amount)]

\* UserBalanceValidator.haveEnoughFunds(user, amount)
UserBalanceValidator_haveEnoughFunds(user, amount) ==
    Gt(Sub(user.balance, amount), Zero)

\* user.setBalance(amount)
User_setBalance(this, amount) == [this EXCEPT !.balance = amount]

\* aService.transfer(fromUser, toUser, amount), proper SoC
AccountService_transfer(users, fromUser, toUser, amount) ==
    IF ~UserBalanceValidator_haveEnoughFunds(users[fromUser], amount)
    THEN users
    ELSE LET got == [users EXCEPT ![fromUser] =
                        User_setBalance(users[fromUser],
                                        Sub(users[fromUser].balance, amount))]
         IN  [got EXCEPT ![toUser] =
                        User_setBalance(got[toUser],
                                        Add(got[toUser].balance, amount))]

\* aService.updateBalance(user, amount), proper SoC
AccountService_updateBalance(users, user, amount) ==
    [users EXCEPT ![user] =
        User_setBalance(users[user], Add(users[user].balance, amount))]

-----------------------------------------------------------------------------
(* DRY (DRY.md).  A Week is its days array, a Day its name and its order.   *)

\* enum dayNames: the members in the order they are written, each one a
\* key and the string it stands for
dayNames ==
    << <<"Monday", "Monday">>, <<"Tuesday", "Tuesday">>,
       <<"Wednesday", "Wednesday">>, <<"Thursday", "Thursday">>,
       <<"Friday", "Friday">>, <<"Saturday", "Saturday">>,
       <<"Sunday", "Sunday">> >>

\* new Day(name): the order defaults to 0
Day(name) == [name |-> name, order |-> Zero]

\* day.setOrder(order)
Day_setOrder(this, order) == [this EXCEPT !.order = order]

\* an addDay that gives the position counted from 0
Week_addDayFromZero(this, name) ==
    [this EXCEPT !.days = Append(this.days,
                                 Day_setOrder(Day(name), Num(Len(this.days))))]

\* week.addDay(name): push returns the new length of the array
Week_addDay(this, name) ==
    LET day == Day(name)
        index == Len(this.days) + 1
    IN  [this EXCEPT !.days = Append(this.days, Day_setOrder(day, Num(index)))]

\* the loop of the constructor, from the i-th member of the enum on:
\* for (let dayName in dayNames) goes through the keys
RECURSIVE WeekLoop(_, _)
WeekLoop(this, i) ==
    IF i > Len(dayNames) THEN this
    ELSE WeekLoop(Week_addDay(this, dayNames[i][1]), i + 1)

\* new Week()
Week == WeekLoop([days |-> <<>>], 1)

\* new Week() of the class that is not DRY: seven days written out
WeekNotDRY ==
    [days |-> << [name |-> "Monday", order |-> Num(1)],
                 [name |-> "Tuesday", order |-> Num(2)],
                 [name |-> "Wednesday", order |-> Num(3)],
                 [name |-> "Thursdya", order |-> Num(4)],
                 [name |-> "Friday", order |-> Num(5)],
                 [name |-> "Saturday", order |-> Num(6)],
                 [name |-> "Sunday", order |-> Num(7)] >>]

-----------------------------------------------------------------------------
(* KISS (KISS.md).  A string is the sequence of its characters.  A price    *)
(* is a whole count of 1/10000 of a unit, so that a percentage of a         *)
(* percentage of a whole price is exact; both classes do the same           *)
(* operations in the same order on it.                                      *)

Money(d) == d * 10000

UpperCase ==
    <<"A", "B", "C", "D", "E", "F", "G", "H", "I", "J", "K", "L", "M",
      "N", "O", "P", "Q", "R", "S", "T", "U", "V", "W", "X", "Y", "Z">>
LowerCase ==
    <<"a", "b", "c", "d", "e", "f", "g", "h", "i", "j", "k", "l", "m",
      "n", "o", "p", "q", "r", "s", "t", "u", "v", "w", "x", "y", "z">>

\* str.toLowerCase()
toLowerCase(str) ==
    [i \in 1..Len(str) |->
        IF \E j \in 1..Len(UpperCase) : UpperCase[j] = str[i]
        THEN LowerCase[CHOOSE j \in 1..Len(UpperCase) : UpperCase[j] = str[i]]
        ELSE str[i]]

\* array.indexOf(x): the first place of x counted from 0, or -1
indexOf(array, x) ==
    IF \E i \in 1..Len(array) : array[i] = x
    THEN (CHOOSE i \in 1..Len(array) :
              array[i] = x /\ \A j \in 1..(i - 1) : array[j] # x) - 1
    ELSE -1

\* (percent / 100) * price
PercentOf(percent, price) == (percent * price) \div 100

\* p.howmuchtopay(region, amount, tax, country, price)
payup_howmuchtopay(region, amount, tax, country, price) ==
    IF country = <<"p", "l", "_", "P", "L">>
    THEN IF \/ region = <<"m", "a", "s", "o", "v", "i", "a">>
            \/ region = <<"L", "u", "b", "u", "s", "z">>
         THEN IF amount > 15
              THEN LET less == price - PercentOf(15, price)
                       more == less + PercentOf(tax, less)
                   IN  more * amount
              ELSE (price + PercentOf(tax, price)) * amount
         ELSE (price + PercentOf(tax, price)) * amount
    ELSE price * amount

\* new Poland()
Poland ==
    [code |-> <<"p", "l", "_", "P", "L">>,
     discountAmountPercent |-> 15,
     taxAmountPercent |-> 23,
     discountRegions |-> << <<"m", "a", "s", "o", "v", "i", "a">>,
                           <<"l", "u", "b", "u", "s", "z">> >>]

\* payment.setTax(price, tax)
Payment_setTax(price, tax) == price + PercentOf(tax, price)

\* payment.setDiscount(price, discount)
Payment_setDiscount(price, discount) == price - PercentOf(discount, price)

\* payment.pay(country, region, amount, nettoPrice)
Payment_pay(country, region, amount, nettoPrice) ==
    LET discounted ==
            IF /\ indexOf(country.discountRegions, toLowerCase(region)) # -1
               /\ amount > 15
            THEN Payment_setDiscount(nettoPrice, country.discountAmountPercent)
            ELSE nettoPrice
        bruttoPrice == Payment_setTax(discounted, country.taxAmountPercent)
    IN  bruttoPrice * amount

-----------------------------------------------------------------------------
(* The state of the examples before any call *)

\* const aService = new AccountService() of the version, u1 and u2 new
NewAccounts(version) ==
    [aService |-> version, users |-> [u1 |-> Account, u2 |-> Account]]

InitExamples ==
    /\ u = [noTDA |-> User, TDA |-> User]
    /\ accounts = NewAccounts("SoC")
    /\ week = Week
    /\ purchase = [region |-> <<"m", "a", "s", "o", "v", "i", "a">>,
                   amount |-> 25, price |-> Money(1000)]

-----------------------------------------------------------------------------
(* The program (solid.js 107-121) and its state *)

shapes == <<circle(Num(2)), square(Num(5)), square(Num(6))>>
solids == <<cubo(Num(4))>>
areas == areaCalculator(Arr(shapes))
volume == volumeCalculator(Arr(solids))

\* the values a caller puts into a shapes array: the shapes the program
\* builds, a square of unbounded side, and two values that are no shape
PlainObject == Literal(Empty)
NonShapes == {PlainObject, Null}
PushValues ==
    {circle(Num(2)), square(Num(5)), cubo(Num(4)), square(Infinity)}
        \cup NonShapes

\* the dimensions and the shapes built for direct calls
ProbeDims == {Num(d) : d \in (-MaxDim)..MaxDim} \cup {Infinity, NaN}
ProbeShapes ==
    {square(d) : d \in ProbeDims} \cup {circle(d) : d \in ProbeDims}
        \cup {cubo(d) : d \in ProbeDims}
        \cup {squareBasics(d) : d \in ProbeDims}
        \cup {cuboSegregated(d) : d \in ProbeDims}

NoCall == [op |-> "none", c |-> "normal", v |-> Undefined]

\* the shapes array of the calculator under observation
Items == Get(Get(output, "calculator"), "shapes").items

\* output is the program's `output` (on areas) or `output2` (on volume)
Init ==
    /\ output \in {sumCalculatorOputter(areas), sumCalculatorOputter(volume)}
    /\ shape = Undeclared
    /\ call = NoCall
    /\ probe = Undefined
    /\ InitExamples

\* the caller appends a value to the array the calculator holds
Push(e) ==
    /\ Len(Items) < MaxLen
    /\ output' = [output EXCEPT !.own.calculator.own.shapes.items = Append(@, e)]
    /\ call' = [op |-> "push", c |-> "normal", v |-> Undefined]
    /\ UNCHANGED <<shape, probe, examples>>

\* the caller removes the last value of the array the calculator holds
Pop ==
    /\ Len(Items) > 0
    /\ output' = [output EXCEPT
                    !.own.calculator.own.shapes.items = SubSeq(@, 1, Len(@) - 1)]
    /\ call' = [op |-> "pop", c |-> "normal", v |-> Undefined]
    /\ UNCHANGED <<shape, probe, examples>>

\* calculator.sum()
DoSum ==
    LET r == CallSum(Get(output, "calculator"), shape)
    IN  /\ output' = WithCalculator(output, r.this)
        /\ shape' = r.shape
        /\ call' = [op |-> "sum", c |-> r.c, v |-> r.v]
        /\ UNCHANGED <<probe, examples>>

\* the completion of output.<format>(), the method looked up on output
CallFormat(this, format, g) ==
    IF Get(this, format).t # "function" THEN Throw(Str("TypeError"), this, g)
    ELSE CASE format = "JSON" -> JSON(this, g)
           [] format = "HAML" -> HAML(this, g)
           [] format = "HTML" -> HTML(this, g)
           [] format = "JADE" -> JADE(this, g)

Formats == {"JSON", "HAML", "HTML", "JADE"}

\* output.JSON(), output.HAML(), output.HTML() or output.JADE()
DoFormat(format) ==
    LET r == CallFormat(output, format, shape)
    IN  /\ output' = r.this
        /\ shape' = r.shape
        /\ call' = [op |-> format, c |-> r.c, v |-> r.v]
        /\ UNCHANGED <<probe, examples>>

Next ==
    \/ \E e \in PushValues : Push(e)
    \/ Pop
    \/ DoSum
    \/ \E format \in Formats : DoFormat(format)

Spec == Init /\ [][Next]_vars

-----------------------------------------------------------------------------
(* Direct calls of one shape's methods *)

InitShape ==
    /\ output = sumCalculatorOputter(areas)
    /\ shape = Undeclared
    /\ call = NoCall
    /\ probe \in ProbeShapes
    /\ InitExamples

\* probe.area(), probe.volume() or probe.calculate()
DoMethod(name) ==
    LET r == CallMethod(probe, name, Undefined)
    IN  /\ call' = [op |-> name, c |-> r.c, v |-> r.v]
        /\ UNCHANGED <<output, shape, probe, examples>>

\* areaCalculator([probe]).sum() with the type-checked sum of the walkthrough
DoSumTyped ==
    LET r == sumTyped(areaCalculator(Arr(<<probe>>)), shape)
    IN  /\ shape' = r.shape
        /\ call' = [op |-> "sumTyped", c |-> r.c, v |-> r.v]
        /\ UNCHANGED <<output, probe, examples>>

NextShape ==
    \/ \E name \in {"area", "volume", "calculate"} : DoMethod(name)
    \/ DoSumTyped

SpecShape == InitShape /\ [][NextShape]_vars

-----------------------------------------------------------------------------
(* Calls of updateTokens on the user of TDA.md, in each version *)

InitTokens ==
    /\ output = sumCalculatorOputter(areas)
    /\ shape = Undeclared
    /\ call = NoCall
    /\ probe = Undefined
    /\ InitExamples

operations == {"add", "sub"}

\* the amounts and balances of a call: whole numbers, the infinities and NaN
Whole == {Num(d) : d \in (0 - MaxTokens)..MaxTokens}
Amounts == Whole \cup {Infinity, NegInfinity, NaN}

\* uService.updateTokens(u, operation, amount) of the version with TDA
updateTokens(operation, amount) ==
    LET r == UserService_updateTokens(u.TDA, operation, amount)
    IN  /\ r.tokens \in Amounts
        /\ u' = [u EXCEPT !.TDA = r]
        /\ call' = [op |-> "updateTokens", operation |-> operation,
                    amount |-> amount, from |-> u.TDA.tokens]
        /\ UNCHANGED <<solid, accounts, week, purchase>>

\* uService.updateTokens(u, operation, amount) of the version without TDA
updateTokensNoTDA(operation, amount) ==
    LET r == UserService_updateTokensNoTDA(u.noTDA, operation, amount)
    IN  /\ r.tokens \in Amounts
        /\ u' = [u EXCEPT !.noTDA = r]
        /\ call' = [op |-> "updateTokensNoTDA", operation |-> operation,
                    amount |-> amount, from |-> u.noTDA.tokens]
        /\ UNCHANGED <<solid, accounts, week, purchase>>

NextTokens ==
    \E operation \in operations, amount \in Amounts :
        \/ updateTokens(operation, amount)
        \/ updateTokensNoTDA(operation, amount)

SpecTokens == InitTokens /\ [][NextTokens]_vars

-----------------------------------------------------------------------------
(* Calls of the account service, in the version the run has chosen *)

InitTransfer ==
    /\ output = sumCalculatorOputter(areas)
    /\ shape = Undeclared
    /\ call = NoCall
    /\ probe = Undefined
    /\ u = [noTDA |-> User, TDA |-> User]
    /\ accounts \in {NewAccounts("noSoC"), NewAccounts("SoC")}
    /\ week = Week
    /\ purchase = [region |-> <<"m", "a", "s", "o", "v", "i", "a">>,
                   amount |-> 25, price |-> Money(1000)]

UserNames == {"u1", "u2"}

\* the balances and the amounts of a call
Balances ==
    {Num(d) : d \in (0 - MaxBalance)..MaxBalance}
        \cup {Infinity, NegInfinity, NaN}

InBalances(users) == \A name \in UserNames : users[name].balance \in Balances

\* aService.transfer(fromUser, toUser, amount)
transfer(fromUser, toUser, amount) ==
    LET users == IF accounts.aService = "SoC"
                 THEN AccountService_transfer(accounts.users,
                                              fromUser, toUser, amount)
                 ELSE AccountService_transferNoSoC(accounts.users,
                                                   fromUser, toUser, amount)
    IN  /\ InBalances(users)
        /\ accounts' = [accounts EXCEPT !.users = users]
        /\ call' = [op |-> "transfer", fromUser |-> fromUser,
                    toUser |-> toUser, amount |-> amount]
        /\ UNCHANGED <<solid, u, week, purchase>>

\* aService.updateBalance(user, amount)
updateBalance(user, amount) ==
    LET users == IF accounts.aService = "SoC"
                 THEN AccountService_updateBalance(accounts.users,
                                                   user, amount)
                 ELSE AccountService_updateBalanceNoSoC(accounts.users,
                                                        user, amount)
    IN  /\ InBalances(users)
        /\ accounts' = [accounts EXCEPT !.users = users]
        /\ call' = [op |-> "updateBalance", user |-> user, amount |-> amount]
        /\ UNCHANGED <<solid, u, week, purchase>>

NextTransfer ==
    \E fromUser \in UserNames, toUser \in UserNames, amount \in Balances :
        \/ transfer(fromUser, toUser, amount)
        \/ updateBalance(fromUser, amount)

SpecTransfer == InitTransfer /\ [][NextTransfer]_vars

-----------------------------------------------------------------------------
(* Calls on the Week of DRY.md *)

InitWeek ==
    /\ output = sumCalculatorOputter(areas)
    /\ shape = Undeclared
    /\ call = NoCall
    /\ probe = Undefined
    /\ InitExamples

\* the names a caller passes to addDay: the names of the enum and another
DayStrings == {dayNames[i][2] : i \in 1..Len(dayNames)} \cup {"Funday"}

\* firstWeek.addDay(name)
addDay(name) ==
    /\ Len(week.days) < Len(dayNames) + MaxLen
    /\ week' = Week_addDay(week, name)
    /\ call' = [op |-> "addDay", name |-> name]
    /\ UNCHANGED <<solid, u, accounts, purchase>>

\* firstWeek.listDays(): the days are logged, nothing changes
listDays ==
    /\ call' = [op |-> "listDays", logged |-> week.days]
    /\ UNCHANGED <<solid, examples>>

NextWeek ==
    \/ \E name \in DayStrings : addDay(name)
    \/ listDays

SpecWeek == InitWeek /\ [][NextWeek]_vars

-----------------------------------------------------------------------------
(* A payment for Poland, computed by each class of KISS.md *)

\* the regions a caller names
Regions ==
    { <<"m", "a", "s", "o", "v", "i", "a">>,
      <<"M", "a", "s", "o", "v", "i", "a">>,
      <<"M", "A", "S", "O", "V", "I", "A">>,
      <<"l", "u", "b", "u", "s", "z">>,
      <<"L", "u", "b", "u", "s", "z">>,
      <<"s", "i", "l", "e", "s", "i", "a">>,
      <<>> }

\* the amounts around the 15 the discount starts above, and the prices
PurchaseAmounts ==
    {Poland.discountAmountPercent + d : d \in (0 - MaxDim)..MaxDim}
PurchasePrices == {Money(d) : d \in 1..MaxDim}

InitPay ==
    /\ output = sumCalculatorOputter(areas)
    /\ shape = Undeclared
    /\ call = NoCall
    /\ probe = Undefined
    /\ u = [noTDA |-> User, TDA |-> User]
    /\ accounts = NewAccounts("SoC")
    /\ week = Week
    /\ purchase \in [region : Regions, amount : PurchaseAmounts,
                     price : PurchasePrices]

\* payment.pay(new Poland(), region, amount, price)
pay ==
    /\ call' = [op |-> "pay",
                v |-> Payment_pay(Poland, purchase.region, purchase.amount,
                                  purchase.price)]
    /\ UNCHANGED <<solid, examples>>

\* p.howmuchtopay(region, amount, 23, 'pl_PL', price)
howmuchtopay ==
    /\ call' = [op |-> "howmuchtopay",
                v |-> payup_howmuchtopay(purchase.region, purchase.amount,
                                         Poland.taxAmountPercent, Poland.code,
                                         purchase.price)]
    /\ UNCHANGED <<solid, examples>>

NextPay == pay \/ howmuchtopay

SpecPay == InitPay /\ [][NextPay]_vars

-----------------------------------------------------------------------------
(* Reference definitions used by the properties *)

IsSquare(e) == e.t = "object" /\ e = square(Get(e, "length"))
IsCircle(e) == e.t = "object" /\ e = circle(Get(e, "radius"))
IsCubo(e) == e.t = "object" /\ e = cubo(Get(e, "length"))
IsFactoryShape(e) == IsSquare(e) \/ IsCircle(e) \/ IsCubo(e)

\* x squared, x cubed and pi times x, by integer arithmetic on the grid
Squared(x) ==
    IF x.k = "fin" THEN Fin((x.v * x.v) \div Scale)
    ELSE IF x.k = "inf" THEN Infinity ELSE NaN
Cubed(x) ==
    IF x.k = "fin" THEN Fin((x.v * x.v * x.v) \div (Scale * Scale)) ELSE x
TimesPi(x) ==
    IF x.k = "fin" THEN Fin((MathPI * x.v) \div Scale) ELSE x

\* what a factory-built shape is meant to contribute to the aggregate
Contribution(e) ==
    IF IsSquare(e) THEN Squared(Get(e, "length"))
    ELSE IF IsCircle(e) THEN TimesPi(Squared(Get(e, "radius")))
    ELSE Add(Squared(Get(e, "length")), Cubed(Get(e, "length")))

\* the arithmetic sum of the contributions of a sequence of shapes
RECURSIVE ArithSum(_)
ArithSum(items) ==
    IF items = <<>> THEN Zero
    ELSE Add(ArithSum(SubSeq(items, 1, Len(items) - 1)),
             Contribution(items[Len(items)]))

AllFactoryShapes(items) == \A i \in 1..Len(items) : IsFactoryShape(items[i])

\* an element without the shape capability: it has no area operation
LacksArea(e) == Get(e, "area").t # "function"

\* the calculator under observation
Calculator == Get(output, "calculator")

-----------------------------------------------------------------------------
(* Properties *)

\* C1: sum() of a calculator whose shapes are all factory-built returns
\* the arithmetic sum of the contributions of its shapes: 0 for the empty
\* sequence, and 4*pi + 25 + 36 for [circle(2), square(5), square(6)].
C1_SumIsArithmeticSum ==
    (call.op = "sum" /\ AllFactoryShapes(Items)) =>
        /\ call.c = "normal"
        /\ call.v = ArithSum(Items)
        /\ (Items = <<>> => call.v = Zero)
        /\ (Items = shapes => call.v = Fin(4 * MathPI + (25 + 36) * Scale))

C1_Witness ==
    /\ call.op = "sum"
    /\ Items = shapes
    /\ call.v = Fin(4 * MathPI + 61 * Scale)

ProbeDim ==
    IF IsCircle(probe) THEN Get(probe, "radius") ELSE Get(probe, "length")

\* C3: for every side s, the object returned by cubo(s) answers area()
\* with s^2 and volume() with s^3.
C3_CuboAreaAndVolume ==
    (IsCubo(probe) /\ ProbeDim.k = "fin") =>
        /\ call.op = "area" =>
              (call.c = "normal" /\ call.v = Squared(ProbeDim))
        /\ call.op = "volume" =>
              (call.c = "normal" /\ call.v = Cubed(ProbeDim))

\* C4: for every non-negative dimension, circle(r).area() is pi*r^2 and
\* square(s).area() is s^2, and calculate() of a circle or square equals
\* its area().
C4_FlatShapeArea ==
    ((IsSquare(probe) \/ IsCircle(probe))
        /\ ProbeDim.k = "fin" /\ ProbeDim.v >= 0
        /\ call.op \in {"area", "calculate"}) =>
        /\ call.c = "normal"
        /\ IsSquare(probe) => call.v = Squared(ProbeDim)
        /\ IsCircle(probe) => call.v = TimesPi(Squared(ProbeDim))
        /\ call.op = "calculate" =>
              call.v = CallMethod(probe, "area", Undefined).v

C4_Witness ==
    /\ probe = circle(Num(3))
    /\ call.op = "area"
    /\ call.v = Fin(9 * MathPI)

\* C5: for every side s, cubo(s).calculate() is s^2 + s^3, which is what
\* a volumeCalculator holding that cubo sums to; volumeCalculator([cubo(4)])
\* sums to 80.
C5_CuboCalculate ==
    /\ (IsCubo(probe) /\ ProbeDim.k = "fin") =>
          /\ call.op = "calculate" =>
                /\ call.c = "normal"
                /\ call.v = Add(Squared(ProbeDim), Cubed(ProbeDim))
          /\ CallSum(volumeCalculator(Arr(<<probe>>)), shape).v
                = Add(Squared(ProbeDim), Cubed(ProbeDim))
    /\ CallSum(volumeCalculator(Arr(<<cubo(Num(4))>>)), shape).v = Num(80)

C5_Witness ==
    /\ probe = cubo(Num(4))
    /\ call.op = "calculate"
    /\ call.v = Num(80)

\* C6: a call of sum() changes neither the calculator, nor its shapes
\* sequence, nor any shape in it, and writes no variable outside its own
\* scope: the global `shape` is as it was.
C6_SumIsPure ==
    [][call'.op = "sum" => (output' = output /\ shape' = shape)]_vars

\* JSON.parse of the texts the outputter produces: null, or a decimal
\* numeral read to the nearest number of the grid
NumeralChars == {DigitChars[i] : i \in 1..10} \cup {"-", "."}
DigitValue(ch) == CHOOSE d \in 0..9 : DigitChars[d + 1] = ch

RECURSIVE DigitsValue(_)
DigitsValue(ds) ==
    IF ds = <<>> THEN 0
    ELSE DigitsValue(SubSeq(ds, 1, Len(ds) - 1)) * 10 + DigitValue(ds[Len(ds)])

RECURSIVE Pow10(_)
Pow10(n) == IF n = 0 THEN 1 ELSE 10 * Pow10(n - 1)

ParseNumeral(cs) ==
    LET neg == cs # <<>> /\ cs[1] = "-"
        body == IF neg THEN Tail(cs) ELSE cs
        dots == {i \in 1..Len(body) : body[i] = "."}
        dot == IF dots = {} THEN Len(body) + 1 ELSE CHOOSE i \in dots : TRUE
        int == SubSeq(body, 1, dot - 1)
        frac == SubSeq(body, dot + 1, Len(body))
        units == DigitsValue(int) * Scale
                   + (2 * DigitsValue(frac) * Scale + Pow10(Len(frac)))
                        \div (2 * Pow10(Len(frac)))
    IN  Fin(IF neg THEN -units ELSE units)

JSONparse(text) ==
    IF text.s = <<"null">> THEN Null
    ELSE IF \A i \in 1..Len(text.s) : text.s[i] \in NumeralChars
    THEN ParseNumeral(text.s)
    ELSE [t |-> "SyntaxError"]

\* C7: for every finite total x that calculator.sum() returns, parsing the
\* text returned by JSON() gives back exactly x.
C7_JSONRoundTrip ==
    (call.op = "JSON" /\ call.c = "normal") =>
        LET x == CallSum(Calculator, shape).v
        IN  x.k = "fin" => JSONparse(call.v) = x

C7_Witness ==
    /\ call.op = "JSON"
    /\ Items = shapes
    /\ call.v = Text(<<"7", "3", ".", "5">>)

\* the text each format is to return for the shapes sequence items
Present(format, items) ==
    CASE format = "JSON" -> JSONstringify(ArithSum(items))
      [] format = "HTML" ->
            Text(<<"<h1> Sum of the areas of provided shapes: ">>
                 \o NumberToString(ArithSum(items)) \o <<" </h1>">>)
      [] format = "HAML" -> Str("HAML format output")
      [] format = "JADE" -> Str("JADE format output")

C9_SumRecomputed ==
    [][call'.op = "sum" =>
          /\ AllFactoryShapes(Items') =>
                (call'.c = "normal" /\ call'.v = ArithSum(Items'))
          /\ call.op = "sum" => call' = call]_vars

\* an earlier sum() ran on a non-empty sequence (it left the global
\* `shape`), the sequence was emptied, and sum() now returns 0
C9_Witness ==
    /\ call.op = "sum"
    /\ Items = <<>>
    /\ shape # Undeclared
    /\ call.v = Zero

\* C10: for the shapes sequence at hand, sum() of a volumeCalculator
\* completes exactly as sum() of an areaCalculator does, every format of
\* an outputter built on either returns the same, and the call just made
\* on the calculator under observation completed that way.
C10_VolumeSubstitutable ==
    LET a == areaCalculator(Arr(Items))
        v == volumeCalculator(Arr(Items))
        ra == CallSum(a, shape)
        rv == CallSum(v, shape)
    IN  /\ rv.c = ra.c /\ rv.v = ra.v /\ rv.shape = ra.shape
        /\ \A f \in Formats :
              LET oa == CallFormat(sumCalculatorOputter(a), f, shape)
                  ov == CallFormat(sumCalculatorOputter(v), f, shape)
              IN  ov.c = oa.c /\ ov.v = oa.v /\ ov.shape = oa.shape
        /\ call.op = "sum" => (call.c = ra.c /\ call.v = ra.v)
        /\ call.op \in Formats =>
              LET oa == CallFormat(sumCalculatorOputter(a), call.op, shape)
              IN  call.c = oa.c /\ call.v = oa.v

C10_Witness ==
    /\ Get(Calculator, "type") = Str("volumeCalculator")
    /\ call.op = "sum"
    /\ call.c = "normal"
    /\ Len(Items) >= 2
    /\ IsCircle(Items[1])


\* C11: every object built by the factories square, circle and cubo has a
\* prototype whose type is 'shapeInterface', so the type-checked sum accepts
\* it and returns its area.
C11_FactoryShapesAccepted ==
    (IsFactoryShape(probe) /\ call.op = "sumTyped")
        => /\ Get(ObjectGetPrototypeOf(probe), "type") = Str("shapeInterface")
           /\ call.c = "normal"
           /\ call.v = CallMethod(probe, "area", Undefined).v


\* C12: the tokens of the user of the version with TDA are never negative:
\* from tokens = 0, after any sequence of updateTokens calls with add or sub
\* and any number as the amount, tokens >= 0, and a sub of more than the
\* current tokens leaves exactly 0.
C12_TokensNeverNegative ==
    /\ Geq(u.TDA.tokens, Zero)
    /\ (call.op = "updateTokens" /\ call.operation = "sub"
            /\ Gt(call.amount, call.from))
        => u.TDA.tokens = Zero

\* what the version with TDA does keep: the tokens are never below 0 (they
\* are 0 or more, or NaN), and a sub of more than the tokens leaves 0
C12_NeverBelowZero ==
    /\ ~Lt(u.TDA.tokens, Zero)
    /\ (call.op = "updateTokens" /\ call.operation = "sub"
            /\ Gt(call.amount, call.from))
        => u.TDA.tokens = Zero

\* the version without TDA does not keep its tokens at 0 or more
C12_NoTDANeverBelowZero == ~Lt(u.noTDA.tokens, Zero)


\* the balances of the two users are 0 or more
NonNegative(users) == \A name \in UserNames : Geq(users[name].balance, Zero)

\* a transfer step of the proper-SoC service
TransferStep == call'.op = "transfer" /\ accounts.aService = "SoC"

\* C13: the transfer of the proper-SoC version never overdraws: if both
\* balances are 0 or more before the call, then for every amount (positive,
\* zero or negative) both are 0 or more after it.
C13_NeverOverdraws ==
    [][(TransferStep /\ NonNegative(accounts.users))
            => NonNegative(accounts'.users)]_vars


\* the same for the amounts above 0 only
C13_PositiveAmounts ==
    [][(TransferStep /\ NonNegative(accounts.users)
            /\ Gt(call'.amount, Zero))
            => NonNegative(accounts'.users)]_vars

\* the two balances added up
Total(users) == Add(users["u1"].balance, users["u2"].balance)

\* C14: the transfer conserves money: for two distinct users and every
\* amount, the sum of the two balances after the call is the sum before it,
\* and a transfer rejected for insufficient funds changes neither balance.
C14_TransferConserves ==
    [][(TransferStep /\ call'.fromUser # call'.toUser)
            => /\ Total(accounts'.users) = Total(accounts.users)
               /\ ~UserBalanceValidator_haveEnoughFunds(
                       accounts.users[call'.fromUser], call'.amount)
                    => accounts'.users = accounts.users]_vars

\* the same for the amounts that are finite numbers
C14_FiniteAmounts ==
    [][(TransferStep /\ call'.fromUser # call'.toUser
            /\ call'.amount.k = "fin")
            => /\ Total(accounts'.users) = Total(accounts.users)
               /\ ~UserBalanceValidator_haveEnoughFunds(
                       accounts.users[call'.fromUser], call'.amount)
                    => accounts'.users = accounts.users]_vars

\* C16: the transfer of the proper-SoC version decides and acts as the
\* transfer of the version without SoC: from the same two balances and with
\* the same amount, both end with the same two balances.
C16_TransferRefines ==
    [][TransferStep
            => accounts'.users =
                   AccountService_transferNoSoC(accounts.users,
                       call'.fromUser, call'.toUser, call'.amount)]_vars

\* the same for the amounts above 0 only
C16_PositiveAmounts ==
    [][(TransferStep /\ Gt(call'.amount, Zero))
            => accounts'.users =
                   AccountService_transferNoSoC(accounts.users,
                       call'.fromUser, call'.toUser, call'.amount)]_vars

\* the same for the amounts above 0 and below the sender's balance
C16_PartOfBalance ==
    [][(TransferStep /\ Gt(call'.amount, Zero)
            /\ Lt(call'.amount, accounts.users[call'.fromUser].balance))
            => accounts'.users =
                   AccountService_transferNoSoC(accounts.users,
                       call'.fromUser, call'.toUser, call'.amount)]_vars


\* the seven names of the week, as the claim lists them
SevenNames ==
    <<"Monday", "Tuesday", "Wednesday", "Thursday", "Friday", "Saturday",
      "Sunday">>

\* the names of the days of a week, in the order of the list
Names(w) == [i \in 1..Len(w.days) |-> w.days[i].name]

\* C15: a constructed Week holds exactly the seven names Monday..Sunday in
\* the order of the enum, and after every addDay each day's order is its
\* position in the list counted from 1.
C15_WeekDaysInOrder ==
    /\ call.op = "none" => Names(week) = SevenNames
    /\ SubSeq(Names(week), 1, Len(SevenNames)) = SevenNames
    /\ \A i \in 1..Len(week.days) : week.days[i].order = Num(i)

C15_Witness ==
    /\ call.op = "addDay"
    /\ Len(week.days) = Len(SevenNames) + MaxLen
    /\ week.days[Len(week.days)].name = "Monday"

\* the class that is not DRY constructs the same week
C15_SameAsNotDRY == call.op = "none" => week = WeekNotDRY


\* what howmuchtopay answers for the purchase, with Poland's tax and code
Howmuchtopay ==
    payup_howmuchtopay(purchase.region, purchase.amount,
                       Poland.taxAmountPercent, Poland.code, purchase.price)

\* C17: for every region, amount and net price, Payment.pay for Poland
\* answers what payup.howmuchtopay answers with tax 23 and country 'pl_PL'.
C17_PayRefines == call.op = "pay" => call.v = Howmuchtopay

\* the same for the regions written in lower case other than lubusz
C17_LowerCaseRegions ==
    (call.op = "pay" /\ purchase.region = toLowerCase(purchase.region)
        /\ purchase.region # Poland.discountRegions[2])
        => call.v = Howmuchtopay

=============================================================================
